---- MODULE Spec2Model ----
(***************************************************************************)
(* Model of src/src/comment.ts (reg-actions): the two comment renderers    *)
(* createCommentWithTarget and createCommentWithoutTarget and their        *)
(* helpers isSuccess, badge, createBaseUrl, differences, newItems and      *)
(* deletedItems.                                                           *)
(*                                                                         *)
(* Text.  A JavaScript string is modelled as a sequence of tokens whose    *)
(* concatenation is the string.  Every value that comes from the input     *)
(* (names, SHAs, paths, URLs, numbers once formatted) is a sequence of     *)
(* one-character tokens drawn from Alphabet.  The fixed markdown text of a *)
(* template literal is cut into multi-character tokens (one per piece of   *)
(* markup, each a definition below), and so is the fixed text of the URLs  *)
(* the code builds.  The two emoji of the source are written               *)
(* :sparkles: and :memo:, and the backquote is written <bq>, since the     *)
(* module's strings are ASCII without backquotes.                          *)
(*                                                                         *)
(* Optional values (string | null, a destructured array slot that may be   *)
(* undefined) are None == <<>> or Some(s) == <<s>>.  A missing object      *)
(* property is a record without that field.                                *)
(***************************************************************************)
EXTENDS Integers, Sequences, FiniteSets, TLC

VARIABLES input, alt, op, pc, ret, altRet

vars == <<input, alt, op, pc, ret, altRet>>

(***************************************************************************)
(* Bounds of the model.                                                    *)
(***************************************************************************)
\* number of distinct item identifiers a ComparisonResult of Spec is built from
NumItems == 3
\* number of distinct item identifiers per ComparisonResult in SpecPair
NumPairItems == 1

(***************************************************************************)
(* Characters.                                                             *)
(***************************************************************************)
\* ECMAScript uriUnreserved: the characters encodeURIComponent leaves alone
Unreserved ==
  { "A","B","C","D","E","F","G","H","I","J","K","L","M",
    "N","O","P","Q","R","S","T","U","V","W","X","Y","Z",
    "a","b","c","d","e","f","g","h","i","j","k","l","m",
    "n","o","p","q","r","s","t","u","v","w","x","y","z",
    "0","1","2","3","4","5","6","7","8","9",
    "-","_",".","!","~","*","'","(",")" }

\* code units of the other ASCII characters the model's inputs use
CharCode ==
  [ c \in {" ", "#", "%", "/", ":", "=", "?"} |->
      CASE c = " " -> 32
        [] c = "#" -> 35
        [] c = "%" -> 37
        [] c = "/" -> 47
        [] c = ":" -> 58
        [] c = "=" -> 61
        [] c = "?" -> 63 ]

Alphabet == Unreserved \cup DOMAIN CharCode

HexDigit(n) ==
  <<"0","1","2","3","4","5","6","7","8","9","A","B","C","D","E","F">>[n + 1]

DecDigit(n) == <<"0","1","2","3","4","5","6","7","8","9">>[n + 1]

\* Number.prototype.toString of a non-negative integer, as `${n}` formats it
RECURSIVE NumberToString(_)
NumberToString(n) ==
  IF n < 10 THEN <<DecDigit(n)>>
  ELSE NumberToString(n \div 10) \o <<DecDigit(n % 10)>>

None == <<>>
Some(s) == <<s>>

\* `${v}` of a value that is a string or undefined
TemplateString(opt) ==
  IF opt = None THEN <<"u","n","d","e","f","i","n","e","d">> ELSE opt[1]

\* JavaScript truthiness of a value that is a string or null
Truthy(opt) == opt # None /\ opt[1] # <<>>

\* String.prototype.slice(0, n)
Slice0(s, n) == SubSeq(s, 1, IF Len(s) < n THEN Len(s) ELSE n)

\* String.prototype.split('/'): the sequence of the pieces between separators
RECURSIVE SplitFrom(_, _, _)
SplitFrom(s, i, cur) ==
  IF i > Len(s) THEN <<cur>>
  ELSE IF s[i] = "/" THEN <<cur>> \o SplitFrom(s, i + 1, <<>>)
  ELSE SplitFrom(s, i + 1, Append(cur, s[i]))

Split(s) == SplitFrom(s, 1, <<>>)

\* const [a, b] = arr: slot k of the array, undefined past its end
Destructure(arr, k) == IF k <= Len(arr) THEN Some(arr[k]) ELSE None

\* path.basename (posix): drop trailing separators, keep what follows the
\* last remaining separator
RECURSIVE StripTrailingSlashes(_)
StripTrailingSlashes(p) ==
  IF Len(p) > 0 /\ p[Len(p)] = "/"
  THEN StripTrailingSlashes(SubSeq(p, 1, Len(p) - 1))
  ELSE p

RECURSIVE AfterLastSlash(_, _)
AfterLastSlash(p, i) ==
  IF i = 0 THEN p
  ELSE IF p[i] = "/" THEN SubSeq(p, i + 1, Len(p))
  ELSE AfterLastSlash(p, i - 1)

basename(p) ==
  LET q == StripTrailingSlashes(p) IN AfterLastSlash(q, Len(q))

\* encodeURIComponent on ASCII text: unreserved characters unchanged, every
\* other character as % and the two upper-case hex digits of its code
EncodeChar(c) ==
  IF c \in Unreserved THEN <<c>>
  ELSE <<"%", HexDigit(CharCode[c] \div 16), HexDigit(CharCode[c] % 16)>>

RECURSIVE encodeURIComponent(_)
encodeURIComponent(s) ==
  IF s = <<>> THEN <<>>
  ELSE EncodeChar(Head(s)) \o encodeURIComponent(Tail(s))

\* Array.prototype.join(sep) of an array of strings
RECURSIVE Join(_, _)
Join(parts, sep) ==
  IF parts = <<>> THEN <<>>
  ELSE IF Len(parts) = 1 THEN parts[1]
  ELSE parts[1] \o sep \o Join(Tail(parts), sep)

(***************************************************************************)
(* Fixed text of the templates.                                            *)
(***************************************************************************)
\* fixed URL text, one token per piece
GithubUrl == <<"https://github.com/">>
BlobPath == <<"/blob/">>
CommitPath == <<"/commit/">>
ComparePath == <<"/compare/">>
ActualDir == <<"actual/">>
ExpectedDir == <<"expected/">>
DiffDir == <<"diff/">>
RawQuery == <<"?raw=true">>

\* the tokens a URL or another interpolated value is made of
ValueTokens ==
  Alphabet \cup {"https://github.com/", "/blob/", "/commit/", "/compare/",
                 "actual/", "expected/", "diff/", "?raw=true"}

\* badges
BadgeChange ==
  "![change detected](https://img.shields.io/badge/%E2%9C%94%20reg-change%20detected-orange)"
BadgeNew ==
  "![new items](https://img.shields.io/badge/%E2%9C%94%20reg-new%20items-green)"
BadgePassed ==
  "![success](https://img.shields.io/badge/%E2%9C%94%20reg-passed-green)"
BadgeTargetNotFound ==
  "![target not found](https://img.shields.io/badge/%E2%9C%94%20reg-new%20items-blue)"

\* section renderers
DifferencesHeader == "   \n     \n### Differences\n  \n"
NewItemsHeader == "   \n     \n### New Items\n  \n"
DeletedItemsHeader == "   \n   \n### Deleted Items\n  \n"
SectionTail == "\n  "
Newline == "\n"
TitleOpen == "### <bq>"
DiffTitleClose == "<bq>\n   \n"
ActualOpen == "| actual|![Actual]("
ActualClose == ") |\n|--|--|\n"
ExpectedOpen == "|expected|![Expected]("
ExpectedClose == ")|\n"
DifferenceOpen == "|difference|![Difference]("
DifferenceClose == ")|"
SingleTitleClose == "<bq>\n       \n|  |\n|--|\n"
NewItemOpen == "|![NewItem]("
DeleteItemOpen == "|![DeleteItem]("
SingleClose == ")|\n       "

\* createCommentWithTarget
ReportOpen == "   \nCheck out the report [here]("
ReportClose == ")."
ArtifactOpen == "\n\n## ArtifactName: <bq>"
ArtifactCloseSuccess == "<bq>\n  \n"
SuccessMessage ==
  ":sparkles::sparkles: That's perfect, there is no visual difference! :sparkles::sparkles:\n"
ArtifactCloseFail == "<bq>\n\n"
HeaderLinkOpen == "Check out the report [here]("
HeaderLinkClose == ").\n    "
ComparingOpen == "This report was generated by comparing ["
LinkMid == "]("
ComparingWith == ") with ["
CompareOpen ==
  ").\nIf you would like to check difference, please check [here]("
CompareClose == ").\n  \n"
TableHead ==
  "\n  \n| item    | count                         |\n|:--------|:-----------------------------:|\n"
RowPass == "| pass    | "
RowPassClose == "  |\n"
RowChange == "| change  | "
RowChangeClose == "  |\n"
RowNew == "| new     | "
RowNewClose == "     |\n"
RowDelete == "| delete  | "
RowDeleteClose == " |\n"
DetailsOpen == "\n<details>\n<summary>:memo: Report</summary>\n"
DetailsClose == "\n</details>\n"

\* createCommentWithoutTarget
WithoutReportOpen == "   \n  Check out the report [here]("
WithoutArtifactOpen == "## ArtifactName: <bq>"
WithoutIntro ==
  "<bq>\n  \nFailed to find a target artifact.\nAll items will be treated as new items and will be used as expected data for the next time.\n\n"
WithoutTableHead ==
  "\n\n| item    | count                         |\n|:--------|:-----------------------------:|\n"
WithoutTail == "  "

(***************************************************************************)
(* The helpers of comment.ts.                                              *)
(***************************************************************************)
\* the slice length of the short SHAs
ShortLen == 7

\* isSuccess without the test of deletedItems
isSuccessIgnoringDeleted(result) ==
  Len(result.failedItems) = 0 /\ Len(result.newItems) = 0

isSuccess(result) ==
  /\ Len(result.failedItems) = 0
  /\ Len(result.newItems) = 0
  /\ Len(result.deletedItems) = 0

\* badge with the tests of newItems and failedItems in the other order
badgeNewFirst(result) ==
  IF Len(result.newItems) # 0 THEN BadgeNew
  ELSE IF Len(result.failedItems) # 0 THEN BadgeChange
  ELSE BadgePassed

\* badge taking a deleted item for a change
badgeCountingDeleted(result) ==
  IF Len(result.failedItems) # 0 \/ Len(result.deletedItems) # 0 THEN BadgeChange
  ELSE IF Len(result.newItems) # 0 THEN BadgeNew
  ELSE BadgePassed

badge(result) ==
  IF Len(result.failedItems) # 0 THEN BadgeChange
  ELSE IF Len(result.newItems) # 0 THEN BadgeNew
  ELSE BadgePassed

createBaseUrl(owner, repoName, branch, runId, artifactName, date) ==
  GithubUrl \o TemplateString(owner) \o <<"/">> \o TemplateString(repoName)
    \o BlobPath \o branch \o <<"/">> \o date \o <<"_">> \o NumberToString(runId)
    \o <<"_">> \o artifactName \o <<"/">>

\* differencesItem with the basename put in the URLs as it is
differencesItemUnencoded(item, baseUrl) ==
  LET base == basename(item)
      actual == baseUrl \o ActualDir \o base \o RawQuery
      expected == baseUrl \o ExpectedDir \o base \o RawQuery
      diff == baseUrl \o DiffDir \o base \o RawQuery
  IN  <<TitleOpen>> \o base \o <<DiffTitleClose, ActualOpen>> \o actual
        \o <<ActualClose, ExpectedOpen>> \o expected
        \o <<ExpectedClose, DifferenceOpen>> \o diff \o <<DifferenceClose>>

\* one block of the Differences section (the callback of map, lines 66-79)
differencesItem(item, baseUrl) ==
  LET base == basename(item)
      filename == encodeURIComponent(base)
      actual == baseUrl \o ActualDir \o filename \o RawQuery
      expected == baseUrl \o ExpectedDir \o filename \o RawQuery
      diff == baseUrl \o DiffDir \o filename \o RawQuery
  IN  <<TitleOpen>> \o base \o <<DiffTitleClose, ActualOpen>> \o actual
        \o <<ActualClose, ExpectedOpen>> \o expected
        \o <<ExpectedClose, DifferenceOpen>> \o diff \o <<DifferenceClose>>

differences(result, baseUrl) ==
  IF Len(result.failedItems) = 0 THEN <<>>
  ELSE LET blocks == [i \in 1..Len(result.failedItems) |->
                          differencesItem(result.failedItems[i], baseUrl)]
       IN  <<DifferencesHeader>> \o Join(blocks, <<Newline>>) \o <<SectionTail>>

\* one block of the New Items section (the callback of map, lines 93-103)
newItemsItem(item, baseUrl) ==
  LET base == basename(item)
      filename == encodeURIComponent(base)
      img == baseUrl \o ActualDir \o filename \o RawQuery
  IN  <<TitleOpen>> \o base \o <<SingleTitleClose, NewItemOpen>> \o img
        \o <<SingleClose>>

\* newItems without the early return for an empty list
newItemsUnguarded(result, baseUrl) ==
  LET blocks == [i \in 1..Len(result.newItems) |->
                  newItemsItem(result.newItems[i], baseUrl)]
  IN  <<NewItemsHeader>> \o Join(blocks, <<Newline>>) \o <<SectionTail>>

newItems(result, baseUrl) ==
  IF Len(result.newItems) = 0 THEN <<>>
  ELSE LET blocks == [i \in 1..Len(result.newItems) |->
                          newItemsItem(result.newItems[i], baseUrl)]
       IN  <<NewItemsHeader>> \o Join(blocks, <<Newline>>) \o <<SectionTail>>

\* one block of the Deleted Items section (the callback of map, lines 117-127)
deletedItemsItem(item, baseUrl) ==
  LET base == basename(item)
      filename == encodeURIComponent(base)
      img == baseUrl \o ExpectedDir \o filename \o RawQuery
  IN  <<TitleOpen>> \o base \o <<SingleTitleClose, DeleteItemOpen>> \o img
        \o <<SingleClose>>

deletedItems(result, baseUrl) ==
  IF Len(result.deletedItems) = 0 THEN <<>>
  ELSE LET blocks == [i \in 1..Len(result.deletedItems) |->
                          deletedItemsItem(result.deletedItems[i], baseUrl)]
       IN  <<DeletedItemsHeader>> \o Join(blocks, <<Newline>>) \o <<SectionTail>>

(***************************************************************************)
(* createCommentWithTarget, piece by piece.                                *)
(***************************************************************************)
\* const report = customReportPage ? ... : ''
reportWithTarget(customReportPage) ==
  IF Truthy(customReportPage)
  THEN <<ReportOpen>> \o customReportPage[1] \o <<ReportClose>>
  ELSE <<>>

\* const successOrFailMessage = isSuccess(result) ? ... : ...
successOrFailMessage(result, artifactName, report) ==
  IF isSuccess(result)
  THEN <<badge(result), ArtifactOpen>> \o artifactName
         \o <<ArtifactCloseSuccess, SuccessMessage, HeaderLinkOpen>> \o report
         \o <<HeaderLinkClose>>
  ELSE <<badge(result), ArtifactOpen>> \o artifactName
         \o <<ArtifactCloseFail, HeaderLinkOpen>> \o report
         \o <<HeaderLinkClose>>

\* commitSentence with the current SHA on the left of the compare link
commitSentenceCurrentLeft(owner, repoName, currentHash, targetHash) ==
  LET currentHashShort == Slice0(currentHash, ShortLen)
      targetHashShort == Slice0(targetHash, ShortLen)
      repoUrl == GithubUrl \o TemplateString(owner) \o <<"/">>
                   \o TemplateString(repoName)
  IN  <<ComparingOpen>> \o currentHashShort \o <<LinkMid>>
        \o repoUrl \o CommitPath \o currentHash
        \o <<ComparingWith>> \o targetHashShort \o <<LinkMid>>
        \o repoUrl \o CommitPath \o targetHash
        \o <<CompareOpen>> \o repoUrl \o ComparePath
        \o currentHashShort \o <<".", ".">> \o targetHashShort
        \o <<CompareClose>>

\* the first two lines of body: the two commit links and the compare link
commitSentence(owner, repoName, currentHash, targetHash) ==
  LET currentHashShort == Slice0(currentHash, ShortLen)
      targetHashShort == Slice0(targetHash, ShortLen)
      repoUrl == GithubUrl \o TemplateString(owner) \o <<"/">>
                   \o TemplateString(repoName)
  IN  <<ComparingOpen>> \o currentHashShort \o <<LinkMid>>
        \o repoUrl \o CommitPath \o currentHash
        \o <<ComparingWith>> \o targetHashShort \o <<LinkMid>>
        \o repoUrl \o CommitPath \o targetHash
        \o <<CompareOpen>> \o repoUrl \o ComparePath
        \o targetHashShort \o <<".", ".">> \o currentHashShort
        \o <<CompareClose>>

\* summaryTable with the counts of the new and delete rows exchanged
summaryTableSwapped(result) ==
  <<TableHead>>
    \o <<RowPass>> \o NumberToString(Len(result.passedItems)) \o <<RowPassClose>>
    \o <<RowChange>> \o NumberToString(Len(result.failedItems)) \o <<RowChangeClose>>
    \o <<RowNew>> \o NumberToString(Len(result.deletedItems)) \o <<RowNewClose>>
    \o <<RowDelete>> \o NumberToString(Len(result.newItems)) \o <<RowDeleteClose>>

\* the summary table of body
summaryTable(result) ==
  <<TableHead>>
    \o <<RowPass>> \o NumberToString(Len(result.passedItems)) \o <<RowPassClose>>
    \o <<RowChange>> \o NumberToString(Len(result.failedItems)) \o <<RowChangeClose>>
    \o <<RowNew>> \o NumberToString(Len(result.newItems)) \o <<RowNewClose>>
    \o <<RowDelete>> \o NumberToString(Len(result.deletedItems)) \o <<RowDeleteClose>>

\* the <details> block of body
reportSection(result, baseUrl) ==
  <<DetailsOpen>> \o differences(result, baseUrl) \o <<Newline>>
    \o newItems(result, baseUrl) \o <<Newline>>
    \o deletedItems(result, baseUrl) \o <<DetailsClose>>

\* targetRun.head_sha is undefined: targetHash.slice(0, 7) raises a TypeError
createCommentWithTargetThrows(in) == "head_sha" \notin DOMAIN in.targetRun

\* the string createCommentWithTarget returns when it returns
createCommentWithTarget(in) ==
  LET parts == Split(in.event.repository.full_name)
      owner == Destructure(parts, 1)
      repoName == Destructure(parts, 2)
      targetHash == in.targetRun.head_sha
      baseUrl == createBaseUrl(owner, repoName, in.regBranch, in.runId,
                               in.artifactName, in.date)
      report == reportWithTarget(in.customReportPage)
  IN  commitSentence(owner, repoName, in.sha, targetHash)
        \o successOrFailMessage(in.result, in.artifactName, report)
        \o summaryTable(in.result)
        \o reportSection(in.result, baseUrl)

(***************************************************************************)
(* createCommentWithoutTarget.                                             *)
(***************************************************************************)
\* createCommentWithoutTarget counting the failed items as new ones too
createCommentWithoutTargetCountingFailed(in) ==
  LET report == IF Truthy(in.customReportPage)
                THEN <<WithoutReportOpen>> \o in.customReportPage[1]
                       \o <<ReportClose>>
                ELSE <<>>
  IN  <<WithoutArtifactOpen>> \o in.artifactName
        \o <<WithoutIntro, BadgeTargetNotFound, Newline>> \o report
        \o <<WithoutTableHead, RowNew>>
        \o NumberToString(Len(in.result.newItems) + Len(in.result.failedItems))
        \o <<RowNewClose, WithoutTail>>

createCommentWithoutTarget(in) ==
  LET report == IF Truthy(in.customReportPage)
                THEN <<WithoutReportOpen>> \o in.customReportPage[1]
                       \o <<ReportClose>>
                ELSE <<>>
  IN  <<WithoutArtifactOpen>> \o in.artifactName
        \o <<WithoutIntro, BadgeTargetNotFound, Newline>> \o report
        \o <<WithoutTableHead, RowNew>>
        \o NumberToString(Len(in.result.newItems)) \o <<RowNewClose, WithoutTail>>

(***************************************************************************)
(* Inputs.                                                                 *)
(***************************************************************************)
\* item identifiers (file paths): the first NumItems of them are used
ItemIds ==
  << <<"d","i","r","/","s","u","b","/","M","y"," ","F","i","l","e",".","p","n","g">>,
     <<"M","y"," ","F","i","l","e",".","p","n","g">>,
     <<"a",".","p","n","g">>,
     <<"x","/","1","0","0","%",".","p","n","g">>,
     <<"x","/","a","#","b","?",".","p","n","g">>,
     <<"y","/","a",".","p","n","g">> >>

ListNames == {"passedItems", "failedItems", "newItems", "deletedItems"}

\* the orderings of the identifiers an assignment puts in one list
Orderings(assign, list) ==
  LET ids == {i \in DOMAIN assign : assign[i] = list}
  IN  { [k \in 1..Cardinality(ids) |-> ItemIds[f[k]]] :
          f \in {g \in [1..Cardinality(ids) -> ids] :
                   \A a, b \in 1..Cardinality(ids) : a # b => g[a] # g[b]} }

\* the ComparisonResults over n identifiers: each identifier in at most one
\* of the four lists, each list in any order
Results(n) ==
  UNION { [ passedItems : Orderings(assign, "passedItems"),
            failedItems : Orderings(assign, "failedItems"),
            newItems : Orderings(assign, "newItems"),
            deletedItems : Orderings(assign, "deletedItems") ] :
          assign \in [1..n -> ListNames \cup {"none"}] }

FullNames ==
  { <<"o","/","r">>, <<"o","r">>, <<"o","/","r","/","x">> }

CurrentShas ==
  { <<"1","a","2">>, <<"1","a","2","b","3","c","4","d","5","e">> }

\* target runs: a full SHA, an empty SHA, and a run without head_sha
TargetRuns ==
  { [id |-> 7, head_sha |-> <<"f","9","e","8","d","7","c","6","b","5">>],
    [id |-> 7, head_sha |-> <<>>],
    [id |-> 7] }

ReportUrl == <<"h","t","t","p","s",":","/","/","r",".","i","o","/","p","?","x","=","1">>

CustomReportPages == { None, Some(<<>>), Some(ReportUrl) }

ArtifactHome == <<"h","o","m","e">>
ArtifactDocs == <<"d","o","c","s">>

WithTargetInputs ==
  [ event : { [repository |-> [full_name |-> n]] : n \in FullNames },
    runId : {42},
    sha : CurrentShas,
    regBranch : { <<"r","e","g">> },
    artifactName : {ArtifactHome},
    targetRun : TargetRuns,
    result : Results(NumItems),
    date : { <<"2","4","-","0","1">> },
    customReportPage : CustomReportPages ]

WithoutTargetInputs ==
  [ event : { [repository |-> [full_name |-> n]] :
                n \in { <<"o","/","r">>, <<"o","r">> } },
    runId : {42, 7},
    result : Results(NumPairItems),
    artifactName : {ArtifactHome, ArtifactDocs},
    customReportPage : CustomReportPages ]

\* the input of createCommentWithoutTarget built from the same run data
WithoutTargetInput(in) ==
  [ event |-> in.event, runId |-> in.runId, result |-> in.result,
    artifactName |-> in.artifactName, customReportPage |-> in.customReportPage ]

(***************************************************************************)
(* The state machine: one call of one renderer on one input.               *)
(***************************************************************************)
Init ==
  /\ input \in WithTargetInputs
  /\ alt = None
  /\ op = "none"
  /\ pc = "start"
  /\ ret = <<>>
  /\ altRet = <<>>

CreateCommentWithTarget ==
  /\ pc = "start"
  /\ op' = "withTarget"
  /\ IF createCommentWithTargetThrows(input)
     THEN pc' = "threw" /\ ret' = <<>>
     ELSE pc' = "returned" /\ ret' = createCommentWithTarget(input)
  /\ UNCHANGED <<input, alt, altRet>>

CreateCommentWithoutTarget ==
  /\ pc = "start"
  /\ op' = "withoutTarget"
  /\ pc' = "returned"
  /\ ret' = createCommentWithoutTarget(WithoutTargetInput(input))
  /\ UNCHANGED <<input, alt, altRet>>

Next == CreateCommentWithTarget \/ CreateCommentWithoutTarget

Spec == Init /\ [][Next]_vars

\* two independent calls of createCommentWithoutTarget, side by side
InitPair ==
  /\ input \in WithoutTargetInputs
  /\ alt \in WithoutTargetInputs
  /\ op = "none"
  /\ pc = "start"
  /\ ret = <<>>
  /\ altRet = <<>>

CreateCommentWithoutTargetPair ==
  /\ pc = "start"
  /\ op' = "pair"
  /\ pc' = "returned"
  /\ ret' = createCommentWithoutTarget(input)
  /\ altRet' = createCommentWithoutTarget(alt)
  /\ UNCHANGED <<input, alt>>

NextPair == CreateCommentWithoutTargetPair

SpecPair == InitPair /\ [][NextPair]_vars

(***************************************************************************)
(* Reading a rendered comment back.                                        *)
(***************************************************************************)
Has(seq, tok) == \E i \in DOMAIN seq : seq[i] = tok

Count(seq, toks) == Cardinality({i \in DOMAIN seq : seq[i] \in toks})

\* index of the first occurrence of tok, 0 when there is none
IndexOf(seq, tok) ==
  IF Has(seq, tok)
  THEN CHOOSE i \in DOMAIN seq :
         seq[i] = tok /\ \A j \in 1..(i - 1) : seq[j] # tok
  ELSE 0

\* the run of value tokens (a name, a number, a URL) that starts at index i
RECURSIVE FieldAt(_, _)
FieldAt(seq, i) ==
  IF i > Len(seq) \/ seq[i] \notin ValueTokens THEN <<>>
  ELSE <<seq[i]>> \o FieldAt(seq, i + 1)

\* the data that follows the markup token at index i
FieldAfter(seq, i) == FieldAt(seq, i + 1)

\* the markup token that follows the data after index i ("" at the end)
MarkupAfter(seq, i) ==
  LET j == i + 1 + Len(FieldAfter(seq, i))
  IN  IF j <= Len(seq) THEN seq[j] ELSE ""

\* the indexes, in increasing order, of the tokens of seq that are in toks
Positions(seq, toks) ==
  LET S == {i \in DOMAIN seq : seq[i] \in toks}
  IN  [k \in 1..Cardinality(S) |->
         CHOOSE i \in S : Cardinality({j \in S : j < i}) = k - 1]

\* the tokens of seq that are in toks, in order
Only(seq, toks) == SelectSeq(seq, LAMBDA t : t \in toks)

EndsWith(s, tail) ==
  Len(s) >= Len(tail) /\ SubSeq(s, Len(s) - Len(tail) + 1, Len(s)) = tail

Repeat(tok, n) == [i \in 1..n |-> tok]

ReturnedFrom(o) == pc = "returned" /\ op = o

Badges == {BadgeChange, BadgeNew, BadgePassed}

(***************************************************************************)
(* What the claims expect, stated without the model's operators.           *)
(***************************************************************************)
\* the last path segment of each item identifier, and its percent-encoding
ExpectedTitle ==
  << <<"M","y"," ","F","i","l","e",".","p","n","g">>,
     <<"M","y"," ","F","i","l","e",".","p","n","g">>,
     <<"a",".","p","n","g">>,
     <<"1","0","0","%",".","p","n","g">>,
     <<"a","#","b","?",".","p","n","g">>,
     <<"a",".","p","n","g">> >>

ExpectedEncoded ==
  << <<"M","y","%","2","0","F","i","l","e",".","p","n","g">>,
     <<"M","y","%","2","0","F","i","l","e",".","p","n","g">>,
     <<"a",".","p","n","g">>,
     <<"1","0","0","%","2","5",".","p","n","g">>,
     <<"a","%","2","3","b","%","3","F",".","p","n","g">>,
     <<"a",".","p","n","g">> >>

ItemIndex(item) == CHOOSE i \in DOMAIN ItemIds : ItemIds[i] = item

\* a count below ten as a plain integer
CountText(n) == <<(<<"0","1","2","3","4","5","6","7","8","9">>)[n + 1]>>

RunIdText(n) == IF n = 42 THEN <<"4","2">> ELSE <<"7">>

\* owner/repoName of a full name with exactly one separator
WellFormed(fullName) == Cardinality({i \in DOMAIN fullName : fullName[i] = "/"}) = 1

SepIndex(fullName) == CHOOSE i \in DOMAIN fullName : fullName[i] = "/"

ExpectedRepoUrl(fullName) ==
  GithubUrl \o SubSeq(fullName, 1, SepIndex(fullName) - 1) \o <<"/">>
    \o SubSeq(fullName, SepIndex(fullName) + 1, Len(fullName))

\* {url} is {repo url}{tail} when the full name is well formed, and ends
\* with {tail} in any case
IsRepoUrl(url, fullName, tail) ==
  /\ EndsWith(url, tail)
  /\ WellFormed(fullName) => url = ExpectedRepoUrl(fullName) \o tail

ExpectedImagePath(in, dir, item) ==
  BlobPath \o in.regBranch \o <<"/">> \o in.date \o <<"_">> \o RunIdText(in.runId)
    \o <<"_">> \o in.artifactName \o <<"/">> \o dir
    \o ExpectedEncoded[ItemIndex(item)] \o RawQuery

(***************************************************************************)
(* Claims.                                                                 *)
(***************************************************************************)
\* C1: in every comment createCommentWithTarget returns, exactly one of the
\* three badges appears; it is the orange "change detected" badge when
\* failedItems is non-empty, whatever the other lists hold, else the green
\* "new items" badge when newItems is non-empty, else the "passed" badge.
C1_BadgePrecedence ==
  ReturnedFrom("withTarget") =>
    LET r == input.result
    IN  /\ Count(ret, Badges) = 1
        /\ Len(r.failedItems) > 0 => Has(ret, BadgeChange)
        /\ Len(r.failedItems) = 0 /\ Len(r.newItems) > 0 => Has(ret, BadgeNew)
        /\ Len(r.failedItems) = 0 /\ Len(r.newItems) = 0 => Has(ret, BadgePassed)

\* C1 witness: a returned comment for a result with failed, new and deleted
\* items at once, showing the "change detected" badge.
C1_Witness ==
  /\ ReturnedFrom("withTarget")
  /\ Len(input.result.failedItems) > 0
  /\ Len(input.result.newItems) > 0
  /\ Len(input.result.deletedItems) > 0
  /\ Has(ret, BadgeChange)

\* C2: the celebratory message appears, in the header (after the artifact
\* name and before the report sentence), exactly when failedItems, newItems
\* and deletedItems are all empty, whatever passedItems holds; and then the
\* badge is the "passed" badge.
C2_SuccessClassification ==
  ReturnedFrom("withTarget") =>
    LET r == input.result
        allEmpty == /\ Len(r.failedItems) = 0
                    /\ Len(r.newItems) = 0
                    /\ Len(r.deletedItems) = 0
    IN  /\ Has(ret, SuccessMessage) <=> allEmpty
        /\ Count(ret, {SuccessMessage}) <= 1
        /\ Has(ret, SuccessMessage) =>
             /\ Has(ret, BadgePassed)
             /\ IndexOf(ret, ArtifactOpen) < IndexOf(ret, SuccessMessage)
             /\ IndexOf(ret, SuccessMessage) + 1 = IndexOf(ret, HeaderLinkOpen)

\* C2 witness: a success comment for a result that has passed items.
C2_Witness ==
  /\ ReturnedFrom("withTarget")
  /\ Len(input.result.passedItems) > 0
  /\ Has(ret, SuccessMessage)
  /\ Has(ret, BadgePassed)

\* the text between the header's "Check out the report [here](" and the
\* ")." that closes the header sentence
HeaderLinkTarget(seq) ==
  SubSeq(seq, IndexOf(seq, HeaderLinkOpen) + 1, IndexOf(seq, HeaderLinkClose) - 1)

\* C3: in the header of createCommentWithTarget the target of
\* "Check out the report [here](T)" is the customReportPage URL when
\* customReportPage is set and the empty string when it is null or empty.
C3_HeaderLinkTarget ==
  ReturnedFrom("withTarget") =>
    /\ Has(ret, HeaderLinkOpen)
    /\ Has(ret, HeaderLinkClose)
    /\ HeaderLinkTarget(ret) =
         IF Truthy(input.customReportPage) THEN input.customReportPage[1] ELSE <<>>

\* the call has returned a whole comment
CompleteComment ==
  /\ pc = "returned"
  /\ op = "withTarget" =>
       /\ ret[1] = ComparingOpen
       /\ ret[Len(ret)] = DetailsClose
       /\ Count(ret, {TableHead}) = 1
  /\ op = "withoutTarget" =>
       /\ ret[1] = WithoutArtifactOpen
       /\ ret[Len(ret)] = WithoutTail

\* C4: neither renderer raises an error or returns partial output: for a
\* full name with zero or several separators, for empty item lists and for
\* a target run without a commit SHA, a call returns a complete comment.
C4_NeverRaises ==
  pc # "start" => CompleteComment

\* C10: the "passed" badge stands next to the non-success header exactly when
\* failedItems and newItems are empty and deletedItems is not; in every
\* other case the "passed" badge is shown iff the header is the success
\* header; and the badge shown is the one shown for the same result with
\* any other deletedItems.
C10_BadgeVersusSuccess ==
  ReturnedFrom("withTarget") =>
    LET r == input.result
        onlyDeleted == /\ Len(r.failedItems) = 0
                       /\ Len(r.newItems) = 0
                       /\ Len(r.deletedItems) > 0
    IN  /\ (Has(ret, BadgePassed) /\ ~Has(ret, SuccessMessage)) <=> onlyDeleted
        /\ ~onlyDeleted => (Has(ret, BadgePassed) <=> Has(ret, SuccessMessage))
        /\ \A d \in {<<>>, <<ItemIds[1]>>, <<ItemIds[2], ItemIds[1]>>} :
             Only(ret, Badges) = <<badge([r EXCEPT !.deletedItems = d])>>

\* C10 witness: a comment with the "passed" badge and no celebratory
\* message, for a result whose only non-empty list besides passedItems is
\* deletedItems.
C10_Witness ==
  /\ ReturnedFrom("withTarget")
  /\ Len(input.result.deletedItems) > 0
  /\ Has(ret, BadgePassed)
  /\ ~Has(ret, SuccessMessage)

SectionHeaders == {DifferencesHeader, NewItemsHeader, DeletedItemsHeader}

\* the section headers a result calls for, in the fixed order
ExpectedHeaders(r) ==
  (IF Len(r.failedItems) > 0 THEN <<DifferencesHeader>> ELSE <<>>)
    \o (IF Len(r.newItems) > 0 THEN <<NewItemsHeader>> ELSE <<>>)
    \o (IF Len(r.deletedItems) > 0 THEN <<DeletedItemsHeader>> ELSE <<>>)

\* C5: inside the collapsible Report section the "Differences", "New Items"
\* and "Deleted Items" headers appear iff failedItems, newItems and
\* deletedItems are non-empty, each at most once and in that order; with
\* the three lists empty none of them appears.
C5_ReportSections ==
  ReturnedFrom("withTarget") =>
    LET r == input.result
        at == Positions(ret, SectionHeaders)
        headers == [k \in DOMAIN at |-> ret[at[k]]]
    IN  /\ headers = ExpectedHeaders(r)
        /\ Has(headers, DifferencesHeader) <=> Len(r.failedItems) > 0
        /\ Has(headers, NewItemsHeader) <=> Len(r.newItems) > 0
        /\ Has(headers, DeletedItemsHeader) <=> Len(r.deletedItems) > 0
        /\ ret[Len(ret)] = DetailsClose
        /\ \A k \in DOMAIN at :
             IndexOf(ret, DetailsOpen) < at[k] /\ at[k] < Len(ret)

\* C5 witness: a comment with the three headers, Differences first and
\* Deleted Items last.
C5_Witness ==
  /\ ReturnedFrom("withTarget")
  /\ Only(ret, SectionHeaders) =
       <<DifferencesHeader, NewItemsHeader, DeletedItemsHeader>>

EmbedOpens == {ActualOpen, ExpectedOpen, DifferenceOpen, NewItemOpen, DeleteItemOpen}

\* the block that starts with the title at index p of seq has the title of
\* `item`, and its image embeds (those of the indexes `embeds` between p and
\* `next`, the start of the following block) are exactly those of `opens`,
\* in order, the k-th with the URL of directory dirs[k]
BlockIs(seq, p, next, embeds, in, item, opens, dirs) ==
  LET mine == SelectSeq(embeds, LAMBDA i : p < i /\ i < next)
  IN  /\ seq[p] = TitleOpen
      /\ FieldAfter(seq, p) = ExpectedTitle[ItemIndex(item)]
      /\ [k \in DOMAIN mine |-> seq[mine[k]]] = opens
      /\ \A k \in DOMAIN mine :
           IsRepoUrl(FieldAfter(seq, mine[k]), in.event.repository.full_name,
                     ExpectedImagePath(in, dirs[k], item))

\* C6: the comment holds one block per failed item, then one per new item,
\* then one per deleted item, each list in input order and each block under
\* its own section header; a block is titled with the last path segment of
\* its item, unencoded; a failed item's block embeds exactly three images,
\* https://github.com/{owner}/{repoName}/blob/{branch}/{date}_{runId}_{artifactName}/{kind}/{encoded}?raw=true
\* for kind = actual, expected, diff, where {encoded} is the percent-encoded
\* last path segment; a new item's block embeds one image under actual/ and
\* a deleted item's block one image under expected/.
C6_ItemBlocks ==
  ReturnedFrom("withTarget") =>
    LET r == input.result
        nf == Len(r.failedItems)
        nn == Len(r.newItems)
        nd == Len(r.deletedItems)
        marks == Positions(ret, SectionHeaders \cup {TitleOpen} \cup EmbedOpens)
        titles == SelectSeq(marks, LAMBDA i : ret[i] = TitleOpen)
        embeds == SelectSeq(marks, LAMBDA i : ret[i] \in EmbedOpens)
        outline == SelectSeq(marks, LAMBDA i : ret[i] \notin EmbedOpens)
        NextStart(k) == IF k < Len(titles) THEN titles[k + 1] ELSE Len(ret) + 1
    IN  /\ Len(titles) = nf + nn + nd
        /\ [k \in DOMAIN outline |-> ret[outline[k]]] =
             (IF nf > 0 THEN <<DifferencesHeader>> \o Repeat(TitleOpen, nf) ELSE <<>>)
               \o (IF nn > 0 THEN <<NewItemsHeader>> \o Repeat(TitleOpen, nn) ELSE <<>>)
               \o (IF nd > 0 THEN <<DeletedItemsHeader>> \o Repeat(TitleOpen, nd) ELSE <<>>)
        /\ \A k \in 1..nf :
             BlockIs(ret, titles[k], NextStart(k), embeds, input, r.failedItems[k],
                     <<ActualOpen, ExpectedOpen, DifferenceOpen>>,
                     <<ActualDir, ExpectedDir, DiffDir>>)
        /\ \A k \in 1..nn :
             BlockIs(ret, titles[nf + k], NextStart(nf + k), embeds, input,
                     r.newItems[k], <<NewItemOpen>>, <<ActualDir>>)
        /\ \A k \in 1..nd :
             BlockIs(ret, titles[nf + nn + k], NextStart(nf + nn + k), embeds, input,
                     r.deletedItems[k], <<DeleteItemOpen>>, <<ExpectedDir>>)

\* C6 witness: a comment for failed items "My File.png" and
\* "dir/sub/My File.png", in that order (two items with one basename, out of
\* alphabetical order), for a well-formed repository name.
C6_Witness ==
  /\ ReturnedFrom("withTarget")
  /\ input.result.failedItems = <<ItemIds[2], ItemIds[1]>>
  /\ WellFormed(input.event.repository.full_name)
  /\ Count(ret, {DifferenceOpen}) = 2

RowOpens == {RowPass, RowChange, RowNew, RowDelete}

\* C7: the summary table has exactly four data rows, pass, change, new and
\* delete in this order, and their counts are the lengths of passedItems,
\* failedItems, newItems and deletedItems as plain integers.
C7_SummaryTable ==
  ReturnedFrom("withTarget") =>
    LET r == input.result
        table == SubSeq(ret, 1, IndexOf(ret, DetailsOpen))
        rows == Positions(table, RowOpens)
        counts == <<Len(r.passedItems), Len(r.failedItems),
                    Len(r.newItems), Len(r.deletedItems)>>
        closes == <<RowPassClose, RowChangeClose, RowNewClose, RowDeleteClose>>
    IN  /\ [k \in DOMAIN rows |-> ret[rows[k]]] = <<RowPass, RowChange, RowNew, RowDelete>>
        /\ rows[1] = IndexOf(ret, TableHead) + 1
        /\ \A k \in 1..4 :
             /\ FieldAfter(ret, rows[k]) = CountText(counts[k])
             /\ MarkupAfter(ret, rows[k]) = closes[k]
             /\ ret[rows[k] + Len(CountText(counts[k])) + 2] =
                  (<<RowChange, RowNew, RowDelete, DetailsOpen>>)[k]

\* C7 witness: a table whose four counts are 0, 2, 1 and 0.
C7_Witness ==
  /\ ReturnedFrom("withTarget")
  /\ Len(input.result.passedItems) = 0
  /\ Len(input.result.failedItems) = 2
  /\ Len(input.result.newItems) = 1
  /\ Len(input.result.deletedItems) = 0
  /\ FieldAfter(ret, IndexOf(ret, RowChange)) = <<"2">>

\* s is the first seven characters of sha, or all of it when it is shorter
IsShortOf(s, sha) ==
  /\ Len(s) = (IF Len(sha) < 7 THEN Len(sha) ELSE 7)
  /\ \A i \in DOMAIN s : s[i] = sha[i]

\* C9: the comment opens with two commit links, the current run's first and
\* the target run's second; each shows the first 7 characters of its SHA
\* (all of a shorter SHA) and targets
\* https://github.com/{owner}/{repoName}/commit/{full SHA}; the compare link
\* targets https://github.com/{owner}/{repoName}/compare/{targetShort}..{currentShort}.
C9_CommitLinks ==
  ReturnedFrom("withTarget") =>
    LET fullName == input.event.repository.full_name
        current == input.sha
        target == input.targetRun.head_sha
        sentence == SubSeq(ret, 1, IndexOf(ret, CompareClose))
        mids == Positions(sentence, {LinkMid})
        with == IndexOf(ret, ComparingWith)
        cmp == IndexOf(ret, CompareOpen)
        currentShort == FieldAfter(ret, 1)
        targetShort == FieldAfter(ret, with)
    IN  /\ ret[1] = ComparingOpen
        /\ Has(ret, CompareClose)
        /\ Len(mids) = 2
        /\ IsShortOf(currentShort, current)
        /\ mids[1] = 1 + Len(currentShort) + 1
        /\ IsRepoUrl(FieldAfter(ret, mids[1]), fullName, CommitPath \o current)
        /\ MarkupAfter(ret, mids[1]) = ComparingWith
        /\ mids[1] < with /\ with < mids[2]
        /\ IsShortOf(targetShort, target)
        /\ mids[2] = with + Len(targetShort) + 1
        /\ IsRepoUrl(FieldAfter(ret, mids[2]), fullName, CommitPath \o target)
        /\ MarkupAfter(ret, mids[2]) = CompareOpen
        /\ IsRepoUrl(FieldAfter(ret, cmp), fullName,
                     ComparePath \o targetShort \o <<".", ".">> \o currentShort)
        /\ MarkupAfter(ret, cmp) = CompareClose

\* C9 witness: a comment for two SHAs longer than seven characters and a
\* well-formed repository name, the link text being seven characters long.
C9_Witness ==
  /\ ReturnedFrom("withTarget")
  /\ Len(input.sha) > 7
  /\ Len(input.targetRun.head_sha) > 7
  /\ WellFormed(input.event.repository.full_name)
  /\ Len(FieldAfter(ret, 1)) = 7
  /\ Len(FieldAfter(ret, IndexOf(ret, ComparingWith))) = 7

\* the two inputs agree on what createCommentWithoutTarget may depend on
AgreeOnRendered(a, b) ==
  /\ a.artifactName = b.artifactName
  /\ Len(a.result.newItems) = Len(b.result.newItems)
  /\ a.customReportPage = b.customReportPage

\* what C8 says of one comment of createCommentWithoutTarget
WithoutTargetShape(in, out) ==
  LET link == IndexOf(out, WithoutReportOpen)
      row == IndexOf(out, RowNew)
  IN  /\ ~Has(out, DifferencesHeader)
      /\ ~Has(out, DeletedItemsHeader)
      /\ Count(out, EmbedOpens \cup {TitleOpen}) = 0
      /\ Count(out, {BadgeTargetNotFound}) = 1
      /\ Count(out, Badges) = 0
      /\ Only(out, RowOpens) = <<RowNew>>
      /\ FieldAfter(out, row) = CountText(Len(in.result.newItems))
      /\ MarkupAfter(out, row) = RowNewClose
      /\ Has(out, WithoutReportOpen) <=> Truthy(in.customReportPage)
      /\ Has(out, WithoutReportOpen) =>
           /\ FieldAfter(out, link) = in.customReportPage[1]
           /\ MarkupAfter(out, link) = ReportClose
      /\ out[1] = WithoutArtifactOpen
      /\ FieldAfter(out, 1) = in.artifactName

\* C8: two calls of createCommentWithoutTarget whose inputs agree on
\* artifactName, the length of newItems and customReportPage return the same
\* string, whatever their failedItems, deletedItems, passedItems, event and
\* runId; a comment has no Differences or Deleted Items section, has the
\* blue "new items" badge, has one table row, whose count is
\* newItems.length, and has the report link iff customReportPage is set.
C8_WithoutTargetDependsOnThree ==
  ReturnedFrom("pair") =>
    /\ AgreeOnRendered(input, alt) => ret = altRet
    /\ WithoutTargetShape(input, ret)
    /\ WithoutTargetShape(alt, altRet)

\* C8 witness: two calls whose inputs differ in failedItems, event and runId
\* and agree on the rest, customReportPage being set, with equal comments.
C8_Witness ==
  /\ ReturnedFrom("pair")
  /\ AgreeOnRendered(input, alt)
  /\ Truthy(input.customReportPage)
  /\ Len(input.result.failedItems) > 0
  /\ Len(alt.result.failedItems) = 0
  /\ input.event # alt.event
  /\ input.runId # alt.runId
  /\ ret = altRet

====
